---- MODULE Spec2Model ----
(***************************************************************************)
(* Model of gammapy/cube/models.py: the sky / background model algebra.    *)
(*                                                                         *)
(* The Python heap is modelled explicitly, because the behaviour of the    *)
(* module rests on object identity:                                        *)
(*   params : the Parameter objects (index = identity)                     *)
(*   leaves : the leaf models SkyModel, SkyDiffuseCube, BackgroundModel    *)
(*   lists  : the Python list objects that hold members                    *)
(*   colls  : the collections SkyModels / BackgroundModels; a collection   *)
(*            holds a REFERENCE to a list object and its own parameter     *)
(*            list, computed in __init__                                   *)
(*   last   : the last call made, its operands and its outcome             *)
(***************************************************************************)
EXTENDS Integers, Sequences, FiniteSets, TLC

\* Bounds of the model.
MaxLeaves == 2
MaxColls == 2
MaxLen == 3
MaxSets == 1

\* Inputs the callers draw from.
NodeTypes == {"center", "edges"}
MapData == {2}
EnergyCenters == {2}

VARIABLES params, leaves, lists, colls, nset, last

vars == <<params, leaves, lists, colls, nset, last>>

----------------------------------------------------------------------------
\* Generic sequence helpers.

Range(s) == {s[i] : i \in 1..Len(s)}

RECURSIVE SeqsUpTo(_, _)
SeqsUpTo(S, n) ==
    IF n = 0 THEN {<<>>}
    ELSE LET shorter == SeqsUpTo(S, n - 1)
         IN  shorter \cup {Append(s, x) : s \in {t \in shorter : Len(t) = n - 1}, x \in S}

\* First index of x in s (x occurs in s).
IndexOf(s, x) == CHOOSE i \in 1..Len(s) : s[i] = x /\ \A j \in 1..(i - 1) : s[j] # x

\* s without repeated elements, in order of first occurrence.
RECURSIVE Uniq(_)
Uniq(s) ==
    IF s = <<>> THEN <<>>
    ELSE LET front == Uniq(SubSeq(s, 1, Len(s) - 1))
             x == s[Len(s)]
         IN  IF x \in Range(front) THEN front ELSE Append(front, x)

----------------------------------------------------------------------------
\* Objects.

Parameter(name, value, frozen) == [name |-> name, value |-> value, frozen |-> frozen]

LeafOp(i) == [t |-> "leaf", id |-> i]
CollOp(c) == [t |-> "coll", id |-> c]
OtherOp == [t |-> "other", id |-> 0]
NoOp == [t |-> "none", id |-> 0]
MapOp(node_type) == [t |-> node_type, id |-> 0]

LeafIds == 1..Len(leaves)
CollIds == 1..Len(colls)
ListIds == 1..Len(lists)
ParamIds == 1..Len(params)

Operands == {LeafOp(i) : i \in LeafIds} \cup {CollOp(c) : c \in CollIds} \cup {OtherOp}

\* isinstance(x, SkyModels), isinstance(x, (SkyModel, SkyDiffuseCube)), ...
IsSkyModels(x) == x.t = "coll" /\ colls[x.id].cls = "SkyModels"
IsSkyLeaf(x) == x.t = "leaf" /\ leaves[x.id].cls \in {"SkyModel", "SkyDiffuseCube"}
IsBackgroundModels(x) == x.t = "coll" /\ colls[x.id].cls = "BackgroundModels"
IsBackgroundModel(x) == x.t = "leaf" /\ leaves[x.id].cls = "BackgroundModel"

\* The member list a collection currently sees through its list reference.
Members(c) == lists[colls[c].list]

NoCall == [op |-> "none", left |-> NoOp, right |-> NoOp, err |-> "none",
           ret |-> 0, val |-> 0, trace |-> <<>>, ref |-> 0]

Call(op, left, right, err, ret) ==
    [op |-> op, left |-> left, right |-> right, err |-> err,
     ret |-> ret, val |-> 0, trace |-> <<>>, ref |-> 0]

----------------------------------------------------------------------------
\* Parameter aggregation: the loops of SkyModels.__init__ and
\* BackgroundModels.__init__ (for model in models: for p in model.parameters).
RECURSIVE AggregateParameters(_)
AggregateParameters(ms) ==
    IF ms = <<>> THEN <<>>
    ELSE leaves[Head(ms)].pars \o AggregateParameters(Tail(ms))

\* The caller is between two calls (the module is single-threaded: a call
\* returns before the next one is made).
Idle == last.op = "none"

Init ==
    /\ params = <<>>
    /\ leaves = <<>>
    /\ lists = <<>>
    /\ colls = <<>>
    /\ nset = 0
    /\ last = NoCall

----------------------------------------------------------------------------
\* Leaf constructors.

\* SkyModel.__init__: parameters = spatial parameters + spectral parameters.
\* The spatial and the spectral model each carry one parameter here.
SkyModel_init(spatial, spectral) ==
    /\ Len(leaves) < MaxLeaves
    /\ params' = params \o <<Parameter("spatial", spatial, FALSE),
                             Parameter("spectral", spectral, FALSE)>>
    /\ leaves' = Append(leaves, [cls |-> "SkyModel", node |-> "none", data |-> 0,
                                 ecenter |-> 0,
                                 pars |-> <<Len(params) + 1, Len(params) + 2>>])
    /\ last' = Call("SkyModel", NoOp, NoOp, "none", 0)
    /\ UNCHANGED <<lists, colls, nset>>

\* Variant of SkyDiffuseCubeAxisOk: the check of BackgroundModel.__init__ pasted
\* into SkyDiffuseCube.__init__.
SkyDiffuseCubeAxisOk_Edges(node_type) == ~(node_type # "edges")

\* The axis checks of the two map-wrapping constructors.
SkyDiffuseCubeAxisOk(node_type) == ~(node_type # "center")

BackgroundModelAxisOk(node_type) == ~(node_type # "edges")

\* SkyDiffuseCube.__init__(map, norm=1)
SkyDiffuseCube_init(node_type, data, ecenter, norm) ==
    /\ Len(leaves) < MaxLeaves
    /\ IF ~SkyDiffuseCubeAxisOk(node_type)
       THEN /\ last' = Call("SkyDiffuseCube", MapOp(node_type), NoOp, "ValueError", 0)
            /\ UNCHANGED <<params, leaves, lists, colls, nset>>
       ELSE /\ params' = Append(params, Parameter("norm", norm, FALSE))
            /\ leaves' = Append(leaves, [cls |-> "SkyDiffuseCube", node |-> node_type,
                                         data |-> data, ecenter |-> ecenter,
                                         pars |-> <<Len(params) + 1>>])
            /\ last' = Call("SkyDiffuseCube", MapOp(node_type), NoOp, "none", 0)
            /\ UNCHANGED <<lists, colls, nset>>

\* SkyDiffuseCube.copy: copy.copy(self), a new model object around the same map
\* and the same Parameter object.
SkyDiffuseCube_copy(self) ==
    /\ Len(leaves) < MaxLeaves
    /\ leaves[self].cls = "SkyDiffuseCube"
    /\ leaves' = Append(leaves, leaves[self])
    /\ last' = Call("copy", LeafOp(self), NoOp, "none", 0)
    /\ UNCHANGED <<params, lists, colls, nset>>

\* BackgroundModel.__init__(background, norm=1, tilt=0, reference="1 TeV")
BackgroundModel_init(op, node_type, data, ecenter, norm, tilt, reference) ==
    /\ Len(leaves) < MaxLeaves
    /\ IF ~BackgroundModelAxisOk(node_type)
       THEN /\ last' = Call(op, MapOp(node_type), NoOp, "ValueError", 0)
            /\ UNCHANGED <<params, leaves, lists, colls, nset>>
       ELSE /\ params' = params \o <<Parameter("norm", norm, FALSE),
                                     Parameter("tilt", tilt, TRUE),
                                     Parameter("reference", reference, TRUE)>>
            /\ leaves' = Append(leaves, [cls |-> "BackgroundModel", node |-> node_type,
                                         data |-> data, ecenter |-> ecenter,
                                         pars |-> <<Len(params) + 1, Len(params) + 2,
                                                    Len(params) + 3>>])
            /\ last' = Call(op, MapOp(node_type), NoOp, "none", 0)
            /\ UNCHANGED <<lists, colls, nset>>

\* BackgroundModel.from_skymodel: the map comes from the external evaluator's
\* compute_npred() and goes through the constructor (cls(background=...)).
BackgroundModel_from_skymodel(skymodel, node_type, data, ecenter) ==
    /\ IsSkyLeaf(LeafOp(skymodel))
    /\ BackgroundModel_init("from_skymodel", node_type, data, ecenter, 1, 0, 1)

----------------------------------------------------------------------------
\* Collection constructors.

\* A new collection object of class cls around list object l with parameter
\* list pars (Model.__init__ wraps the list of references it is given).
NewColl(cls, l, pars) == [cls |-> cls, list |-> l, pars |-> pars]

\* The member sequences a caller can pass: a list object some collection of the
\* same class already holds (src.t = "list"), or a fresh list (src.t = "fresh").
MemberClasses(cls) ==
    IF cls = "SkyModels" THEN {"SkyModel", "SkyDiffuseCube"} ELSE {"BackgroundModel"}

CallerLists(cls) ==
    {[t |-> "list", id |-> l, seq |-> lists[l]] :
        l \in {colls[c].list : c \in {d \in CollIds : colls[d].cls = cls}}}
    \cup
    {[t |-> "fresh", id |-> 0, seq |-> s] :
        s \in SeqsUpTo({m \in LeafIds : leaves[m].cls \in MemberClasses(cls)}, MaxLen)}

\* SkyModels.__init__ / BackgroundModels.__init__: self.skymodels = skymodels
\* stores the caller's list object itself; the parameters are aggregated once.
Collection_init(cls, src) ==
    /\ Len(colls) < MaxColls
    /\ LET l == IF src.t = "list" THEN src.id ELSE Len(lists) + 1
       IN  /\ lists' = IF src.t = "list" THEN lists ELSE Append(lists, src.seq)
           /\ colls' = Append(colls, NewColl(cls, l, AggregateParameters(src.seq)))
           /\ last' = Call(cls, [t |-> src.t, id |-> src.id], NoOp, "none", Len(colls) + 1)
    /\ UNCHANGED <<params, leaves, nset>>

SkyModels_init(skymodels) == Collection_init("SkyModels", skymodels)

BackgroundModels_init(models) == Collection_init("BackgroundModels", models)

----------------------------------------------------------------------------
\* Addition algebra. Each *Members operator is the body of the method up to the
\* point where the new member list is known: [err, members].

Ok(ms) == [err |-> "none", members |-> ms]
Raise(e) == [err |-> e, members |-> <<>>]

\* SkyModelBase.__add__ (self is a leaf: SkyModels overrides __add__)
SkyModelBaseAddMembers(self, skymodel) ==
    IF IsSkyModels(skymodel) THEN Ok(<<self>> \o Members(skymodel.id))
    ELSE IF IsSkyLeaf(skymodel) THEN Ok(<<self>> \o <<skymodel.id>>)
    ELSE Raise("NotImplementedError")

\* SkyModels.__add__: skymodels = self.skymodels.copy(); ...
SkyModelsAddMembers(self, skymodel) ==
    IF IsSkyModels(skymodel) THEN Ok(Members(self) \o Members(skymodel.id))
    ELSE IF IsSkyLeaf(skymodel) THEN Ok(Members(self) \o <<skymodel.id>>)
    ELSE Raise("NotImplementedError")

\* Variant of SkyModelsIAddMembers: the elif accepts any model object.
SkyModelsIAddMembers_AnyModel(self, skymodel) ==
    IF IsSkyModels(skymodel) THEN Ok(Members(self) \o Members(skymodel.id))
    ELSE IF skymodel.t = "leaf" THEN Ok(Members(self) \o <<skymodel.id>>)
    ELSE Raise("NotImplementedError")

\* SkyModels.__iadd__: the new content of the list object self.skymodels
SkyModelsIAddMembers(self, skymodel) ==
    IF IsSkyModels(skymodel) THEN Ok(Members(self) \o Members(skymodel.id))
    ELSE IF IsSkyLeaf(skymodel) THEN Ok(Members(self) \o <<skymodel.id>>)
    ELSE Raise("NotImplementedError")

\* BackgroundModel.__add__
BackgroundModelAddMembers(self, model) ==
    IF IsBackgroundModels(model) THEN Ok(<<self>> \o Members(model.id))
    ELSE IF IsBackgroundModel(model) THEN Ok(<<self>> \o <<model.id>>)
    ELSE Raise("NotImplementedError")

\* BackgroundModels.__iadd__ on a collection whose list holds selfMembers
BackgroundModelsIAddMembers(selfMembers, model) ==
    IF IsBackgroundModels(model) THEN Ok(selfMembers \o Members(model.id))
    ELSE IF IsBackgroundModel(model) THEN Ok(selfMembers \o <<model.id>>)
    ELSE Raise("NotImplementedError")

\* return SkyModels(skymodels) / BackgroundModels(models) on a new list object
ReturnNewCollection(op, cls, left, right, res) ==
    IF res.err # "none"
    THEN /\ last' = Call(op, left, right, res.err, 0)
         /\ UNCHANGED <<params, leaves, lists, colls, nset>>
    ELSE /\ Len(colls) < MaxColls
         /\ Len(res.members) <= MaxLen
         /\ lists' = Append(lists, res.members)
         /\ colls' = Append(colls, NewColl(cls, Len(lists) + 1,
                                           AggregateParameters(res.members)))
         /\ last' = Call(op, left, right, "none", Len(colls) + 1)
         /\ UNCHANGED <<params, leaves, nset>>

SkyModelBase_add(self, skymodel) ==
    /\ IsSkyLeaf(LeafOp(self))
    /\ ReturnNewCollection("add", "SkyModels", LeafOp(self), skymodel,
                           SkyModelBaseAddMembers(self, skymodel))

SkyModels_add(self, skymodel) ==
    /\ IsSkyModels(CollOp(self))
    /\ ReturnNewCollection("add", "SkyModels", CollOp(self), skymodel,
                           SkyModelsAddMembers(self, skymodel))

\* SkyModelBase.__radd__: return self.__add__(model), dispatched on self's class
SkyModelBase_radd(self, model) ==
    /\ IsSkyLeaf(self) \/ IsSkyModels(self)
    /\ ReturnNewCollection("radd", "SkyModels", self, model,
                           IF self.t = "coll" THEN SkyModelsAddMembers(self.id, model)
                           ELSE SkyModelBaseAddMembers(self.id, model))

\* The in-place extend: list += ... mutates the list object; the collection's
\* parameter list is left as it is; returns self.
InPlaceExtend(self, right, res) ==
    IF res.err # "none"
    THEN /\ last' = Call("iadd", CollOp(self), right, res.err, 0)
         /\ UNCHANGED <<params, leaves, lists, colls, nset>>
    ELSE /\ Len(res.members) <= MaxLen
         /\ lists' = [lists EXCEPT ![colls[self].list] = res.members]
         /\ last' = Call("iadd", CollOp(self), right, "none", self)
         /\ UNCHANGED <<params, leaves, colls, nset>>

SkyModels_iadd(self, skymodel) ==
    /\ IsSkyModels(CollOp(self))
    /\ InPlaceExtend(self, skymodel, SkyModelsIAddMembers(self, skymodel))

BackgroundModel_add(self, model) ==
    /\ IsBackgroundModel(LeafOp(self))
    /\ ReturnNewCollection("add", "BackgroundModels", LeafOp(self), model,
                           BackgroundModelAddMembers(self, model))

BackgroundModels_iadd(self, model) ==
    /\ IsBackgroundModels(CollOp(self))
    /\ InPlaceExtend(self, model, BackgroundModelsIAddMembers(Members(self), model))

\* Model.copy() of gammapy.utils.fitting: copy.deepcopy(self). The copy has its
\* own list, its own copies of the member models (one copy per distinct member)
\* and its own copies of their Parameter objects.
ModelCopy(self) ==
    LET ms == Members(self)
        ul == Uniq(ms)
        up == Uniq(colls[self].pars \o AggregateParameters(ul))
        newLeaf(m) == Len(leaves) + IndexOf(ul, m)
        newPar(p) == Len(params) + IndexOf(up, p)
    IN  [params |-> params \o [k \in 1..Len(up) |-> params[up[k]]],
         leaves |-> leaves \o [k \in 1..Len(ul) |->
                        [leaves[ul[k]] EXCEPT
                            !.pars = [j \in 1..Len(leaves[ul[k]].pars) |->
                                          newPar(leaves[ul[k]].pars[j])]]],
         members |-> [k \in 1..Len(ms) |-> newLeaf(ms[k])],
         pars |-> [k \in 1..Len(colls[self].pars) |-> newPar(colls[self].pars[k])]]

\* BackgroundModels.__add__: model_ = self.copy(); model_ += model; return model_
BackgroundModels_add(self, model) ==
    /\ IsBackgroundModels(CollOp(self))
    /\ LET model_ == ModelCopy(self)
           res == BackgroundModelsIAddMembers(model_.members, model)
       IN  IF res.err # "none"
           THEN /\ last' = Call("add", CollOp(self), model, res.err, 0)
                /\ UNCHANGED <<params, leaves, lists, colls, nset>>
           ELSE /\ Len(colls) < MaxColls
                /\ Len(res.members) <= MaxLen
                /\ Len(model_.leaves) <= MaxLeaves
                /\ params' = model_.params
                /\ leaves' = model_.leaves
                /\ lists' = Append(lists, res.members)
                /\ colls' = Append(colls, NewColl("BackgroundModels", Len(lists) + 1,
                                                  model_.pars))
                /\ last' = Call("add", CollOp(self), model, "none", Len(colls) + 1)
                /\ UNCHANGED nset

----------------------------------------------------------------------------
\* Evaluation. A value is [val, ref]: val is the number computed, ref is the
\* identity of the object that carries it: 0 for an object made by the call,
\* k > 0 for the map object stored in leaf k. d is the map data of every leaf
\* (it differs from the stored data only once an in-place += has hit a map).

FillValue == 0

MapDataOf == [i \in LeafIds |-> leaves[i].data]

\* self.parameters[name].value
ParValue(m, name) ==
    params[CHOOSE p \in Range(leaves[m].pars) : params[p].name = name].value

RECURSIVE Power(_, _)
Power(base, exponent) == IF exponent = 0 THEN 1 ELSE base * Power(base, exponent - 1)

\* SkyModel.evaluate: val_spatial * val_spectral, a new array
SkyModelEvaluate(m, d, inside) ==
    LET val_spatial == ParValue(m, "spatial")
        val_spectral == ParValue(m, "spectral")
    IN  [val |-> val_spatial * val_spectral, ref |-> 0]

\* SkyDiffuseCube.evaluate: interp_by_coord gives the map value inside the map
\* and fill_value outside; norm * val is a new array
SkyDiffuseCubeEvaluate(m, d, inside) ==
    LET val == IF inside THEN d[m] ELSE FillValue
        norm == ParValue(m, "norm")
    IN  [val |-> norm * val, ref |-> 0]

\* Variant of BackgroundModelEvaluate: the stored map itself is returned
\* instead of a copy of it.
BackgroundModelEvaluate_InPlace(m, d) ==
    LET norm == ParValue(m, "norm")
        tilt == ParValue(m, "tilt")
        reference == ParValue(m, "reference")
        tilt_factor == Power(leaves[m].ecenter \div reference, -tilt)
        back_values == norm * d[m] * tilt_factor
    IN  [val |-> back_values, ref |-> m]

\* BackgroundModel.evaluate: self.map.copy(data=back_values), a new map
BackgroundModelEvaluate(m, d) ==
    LET norm == ParValue(m, "norm")
        tilt == ParValue(m, "tilt")
        reference == ParValue(m, "reference")
        tilt_factor == Power(leaves[m].ecenter \div reference, -tilt)
        back_values == norm * d[m] * tilt_factor
    IN  [val |-> back_values, ref |-> 0]

\* skymodel.evaluate(lon, lat, energy), resolved on the member's class
SkyLeafEvaluate(m, d, inside) ==
    IF leaves[m].cls = "SkyModel" THEN SkyModelEvaluate(m, d, inside)
    ELSE SkyDiffuseCubeEvaluate(m, d, inside)

\* out += x: the object out refers to is updated in place
InPlaceAdd(out, m, x) ==
    LET sum == out.val + x.val
    IN  [out EXCEPT !.val = sum,
                    !.trace = Append(@, m),
                    !.data = IF out.ref = 0 THEN @ ELSE [@ EXCEPT ![out.ref] = sum]]

Raised(e, d) == [err |-> e, val |-> 0, ref |-> 0, trace |-> <<>>, data |-> d]

\* for skymodel in self.skymodels[1:]: out += skymodel.evaluate(lon, lat, energy)
RECURSIVE SkyAccumulate(_, _, _)
SkyAccumulate(rest, inside, out) ==
    IF rest = <<>> THEN out
    ELSE SkyAccumulate(Tail(rest), inside,
                       InPlaceAdd(out, Head(rest),
                                  SkyLeafEvaluate(Head(rest), out.data, inside)))

\* Variant of SkyModelsEvaluate: the loop runs over self.skymodels instead of
\* self.skymodels[1:].
SkyModelsEvaluate_NoSlice(self, inside) ==
    LET ms == Members(self)
    IN  IF ms = <<>> THEN Raised("IndexError", MapDataOf)
        ELSE LET first == SkyLeafEvaluate(ms[1], MapDataOf, inside)
             IN  SkyAccumulate(ms, inside,
                               [err |-> "none", val |-> first.val, ref |-> first.ref,
                                trace |-> <<ms[1]>>, data |-> MapDataOf])

\* SkyModels.evaluate
SkyModelsEvaluate(self, inside) ==
    LET ms == Members(self)
    IN  IF ms = <<>> THEN Raised("IndexError", MapDataOf)
        ELSE LET first == SkyLeafEvaluate(ms[1], MapDataOf, inside)
             IN  SkyAccumulate(Tail(ms), inside,
                               [err |-> "none", val |-> first.val, ref |-> first.ref,
                                trace |-> <<ms[1]>>, data |-> MapDataOf])

\* for idx, model in enumerate(self.models): vals is unbound before idx = 0
RECURSIVE BackgroundAccumulate(_, _, _)
BackgroundAccumulate(ms, idx, vals) ==
    IF idx >= Len(ms) THEN vals
    ELSE LET model == ms[idx + 1]
             x == BackgroundModelEvaluate(model, vals.data)
         IN  BackgroundAccumulate(ms, idx + 1,
                 IF idx = 0
                 THEN [err |-> "none", val |-> x.val, ref |-> x.ref,
                       trace |-> <<model>>, data |-> vals.data]
                 ELSE InPlaceAdd(vals, model, x))

\* BackgroundModels.evaluate: return vals
BackgroundModelsEvaluate(self) ==
    BackgroundAccumulate(Members(self), 0, Raised("UnboundLocalError", MapDataOf))

Evaluated(self, arg, r) ==
    /\ leaves' = [i \in LeafIds |-> [leaves[i] EXCEPT !.data = r.data[i]]]
    /\ last' = [op |-> "evaluate", left |-> self, right |-> arg, err |-> r.err,
                ret |-> 0, val |-> r.val, trace |-> r.trace, ref |-> r.ref]
    /\ UNCHANGED <<params, lists, colls, nset>>

Coord(inside) == [t |-> IF inside THEN "inside" ELSE "outside", id |-> 0]

LeafResult(m, x) == [err |-> "none", val |-> x.val, ref |-> x.ref, trace |-> <<m>>,
                     data |-> MapDataOf]

SkyModels_evaluate(self, inside) ==
    /\ IsSkyModels(CollOp(self))
    /\ Evaluated(CollOp(self), Coord(inside), SkyModelsEvaluate(self, inside))

BackgroundModels_evaluate(self) ==
    /\ IsBackgroundModels(CollOp(self))
    /\ Evaluated(CollOp(self), NoOp, BackgroundModelsEvaluate(self))

SkyLeaf_evaluate(m, inside) ==
    /\ IsSkyLeaf(LeafOp(m))
    /\ Evaluated(LeafOp(m), Coord(inside),
                 LeafResult(m, SkyLeafEvaluate(m, MapDataOf, inside)))

BackgroundModel_evaluate(m) ==
    /\ IsBackgroundModel(LeafOp(m))
    /\ Evaluated(LeafOp(m), NoOp, LeafResult(m, BackgroundModelEvaluate(m, MapDataOf)))

----------------------------------------------------------------------------
\* The caller (a fit) changes the value of a Parameter object.
ValuesOf(name) ==
    IF name = "tilt" THEN {0, -1} ELSE {1, 2}

SetValue(p, v) ==
    /\ nset < MaxSets
    /\ v \in ValuesOf(params[p].name)
    /\ v # params[p].value
    /\ params' = [params EXCEPT ![p].value = v]
    /\ nset' = nset + 1
    /\ last' = Call("set", [t |-> "param", id |-> p], NoOp, "none", 0)
    /\ UNCHANGED <<leaves, lists, colls>>

\* The call returns to the caller, which makes its next call.
Return ==
    /\ ~Idle
    /\ last' = NoCall
    /\ UNCHANGED <<params, leaves, lists, colls, nset>>

----------------------------------------------------------------------------
Next ==
    \/ Idle /\ SkyModel_init(1, 1)
    \/ Idle /\ \E n \in NodeTypes, d \in MapData, e \in EnergyCenters :
           SkyDiffuseCube_init(n, d, e, 1)
    \/ Idle /\ \E m \in LeafIds : SkyDiffuseCube_copy(m)
    \/ Idle /\ \E n \in NodeTypes, d \in MapData, e \in EnergyCenters :
           BackgroundModel_init("BackgroundModel", n, d, e, 1, 0, 1)
    \/ Idle /\ \E m \in LeafIds, n \in NodeTypes, d \in MapData, e \in EnergyCenters :
           BackgroundModel_from_skymodel(m, n, d, e)
    \/ Idle /\ \E src \in CallerLists("SkyModels") : SkyModels_init(src)
    \/ Idle /\ \E src \in CallerLists("BackgroundModels") :
           BackgroundModels_init(src)
    \/ Idle /\ \E m \in LeafIds, x \in Operands : SkyModelBase_add(m, x)
    \/ Idle /\ \E c \in CollIds, x \in Operands : SkyModels_add(c, x)
    \/ Idle /\ \E a \in Operands, x \in Operands : SkyModelBase_radd(a, x)
    \/ Idle /\ \E c \in CollIds, x \in Operands : SkyModels_iadd(c, x)
    \/ Idle /\ \E m \in LeafIds, x \in Operands : BackgroundModel_add(m, x)
    \/ Idle /\ \E c \in CollIds, x \in Operands : BackgroundModels_add(c, x)
    \/ Idle /\ \E c \in CollIds, x \in Operands : BackgroundModels_iadd(c, x)
    \/ Idle /\ \E c \in CollIds, inside \in BOOLEAN : SkyModels_evaluate(c, inside)
    \/ Idle /\ \E c \in CollIds : BackgroundModels_evaluate(c)
    \/ Idle /\ \E m \in LeafIds, inside \in BOOLEAN : SkyLeaf_evaluate(m, inside)
    \/ Idle /\ \E m \in LeafIds : BackgroundModel_evaluate(m)
    \/ Idle /\ \E p \in ParamIds, v \in {-1, 0, 1, 2} : SetValue(p, v)
    \/ Return

Spec == Init /\ [][Next]_vars

----------------------------------------------------------------------------
\* Vocabulary of the properties.

\* The family of an operand: "sky", "bkg", or "none" for a non-model value.
Family(x) ==
    IF x.t = "leaf"
    THEN (IF leaves[x.id].cls = "BackgroundModel" THEN "bkg" ELSE "sky")
    ELSE IF x.t = "coll"
    THEN (IF colls[x.id].cls = "BackgroundModels" THEN "bkg" ELSE "sky")
    ELSE "none"

\* The members an operand contributes to a combination.
MembersOf(x) == IF x.t = "leaf" THEN <<x.id>> ELSE Members(x.id)

IsPrefix(s, t) == Len(s) <= Len(t) /\ SubSeq(t, 1, Len(s)) = s

HeapUnchanged == UNCHANGED <<params, leaves, lists, colls>>

\* What member m evaluates to on its own, in the current state.
MemberValue(m, inside) ==
    IF leaves[m].cls = "BackgroundModel"
    THEN BackgroundModelEvaluate(m, MapDataOf).val
    ELSE SkyLeafEvaluate(m, MapDataOf, inside).val

\* ((v1 + v2) + ...) + vn of the members ms, n >= 1.
RECURSIVE FoldLeft(_, _)
FoldLeft(ms, inside) ==
    IF Len(ms) = 1 THEN MemberValue(ms[1], inside)
    ELSE FoldLeft(SubSeq(ms, 1, Len(ms) - 1), inside) + MemberValue(ms[Len(ms)], inside)

----------------------------------------------------------------------------
\* C1. Aggregation invariant: in every reachable state the parameter list of
\* every collection is the concatenation, in member order, of the parameter
\* lists of its current members.
C1_AggregationInvariant ==
    \A c \in CollIds : colls[c].pars = AggregateParameters(Members(c))

\* C2. Combination algebra closure: a + b, (a + b) + c and a + (b + c) on
\* same-family operands succeed and return a collection whose member list is
\* the left operand's members followed by the right operand's, the members being
\* the operand objects themselves.
C2_CombinationAlgebra ==
    (/\ last.op = "add"
     /\ Family(last.left) = Family(last.right)
     /\ last.left.t = "leaf" \/ last.right.t = "leaf")
    => /\ last.err = "none"
       /\ last.ret \in CollIds
       /\ Members(last.ret) = MembersOf(last.left) \o MembersOf(last.right)

\* C3. Shared-reference parameters: every collection holds, by identity, the
\* Parameter objects of each leaf model that is a member of it.
C3_SharedReferences ==
    \A c \in CollIds : \A k \in 1..Len(Members(c)) :
        Range(leaves[Members(c)[k]].pars) \subseteq Range(colls[c].pars)

\* C4. Reflected addition symmetry: a.__radd__(b) returns the member list of
\* b + a: b's members first, then a's.
C4_ReflectedAdd ==
    (last.op = "radd" /\ last.err = "none")
    => Members(last.ret) = MembersOf(last.right) \o MembersOf(last.left)

\* C5. Cross-family combination is rejected: +, the reflected + and += with a
\* right operand that is not of the left operand's family raise
\* NotImplementedError (the UnsupportedCombination error), return no collection
\* and leave every member list and parameter list as it was.
C5_CrossFamilyRejected ==
    [][(/\ last'.op \in {"add", "radd", "iadd"}
        /\ Family(last'.left) # Family(last'.right))
       => /\ last'.err = "NotImplementedError"
          /\ last'.ret = 0
          /\ HeapUnchanged]_vars

C5_Witness ==
    /\ last.op = "iadd"
    /\ IsSkyModels(last.left)
    /\ IsBackgroundModel(last.right)
    /\ Members(last.left.id) # <<>>
    /\ last.err = "NotImplementedError"

\* C6. Empty-collection evaluation: evaluate on a collection without members
\* signals the EmptyCollection error.
C6_EmptyCollection ==
    (/\ last.op = "evaluate"
     /\ last.left.t = "coll"
     /\ Members(last.left.id) = <<>>)
    => last.err = "EmptyCollection"

\* C7. Axis validation at construction: a SkyDiffuseCube from an "edges" map
\* and a BackgroundModel from a "center" map fail with ValueError (the
\* InvalidAxisSemantics error) before anything is set, and every existing
\* SkyDiffuseCube wraps a "center" map, every existing BackgroundModel (also
\* one built by from_skymodel or copied) an "edges" map.
C7_AxisValidation ==
    [][/\ (last'.op = "SkyDiffuseCube" /\ last'.left.t = "edges")
            => (last'.err = "ValueError" /\ HeapUnchanged)
       /\ (last'.op \in {"BackgroundModel", "from_skymodel"} /\ last'.left.t = "center")
            => (last'.err = "ValueError" /\ HeapUnchanged)
       /\ \A i \in 1..Len(leaves') :
            /\ leaves'[i].cls = "SkyDiffuseCube" => leaves'[i].node = "center"
            /\ leaves'[i].cls = "BackgroundModel" => leaves'[i].node = "edges"]_vars

C7_Witness ==
    /\ last.op = "SkyDiffuseCube"
    /\ last.left.t = "edges"
    /\ last.err = "ValueError"
    /\ \E i \in LeafIds : leaves[i].cls = "BackgroundModel"

\* C8. Collection summation order: evaluate on a non-empty collection evaluates
\* every member exactly once, in member order, and returns the left-to-right
\* fold of the members' evaluations.
C8_SummationOrder ==
    [][(/\ last'.op = "evaluate"
        /\ last'.left.t = "coll"
        /\ Members(last'.left.id) # <<>>)
       => /\ last'.err = "none"
          /\ last'.trace = Members(last'.left.id)
          /\ last'.val = FoldLeft(Members(last'.left.id), last'.right.t = "inside")]_vars

C8_Witness ==
    /\ last.op = "evaluate"
    /\ last.left.t = "coll"
    /\ last.err = "none"
    /\ Len(last.trace) = 3
    /\ last.trace[1] # last.trace[2]
    /\ \E k \in 1..3 : MemberValue(last.trace[k], TRUE) # MemberValue(last.trace[1], TRUE)

\* C9. Purity of +, the reflected + and evaluate: they leave every existing
\* collection (member list and parameter list), list, parameter value and map
\* as it was, and the value evaluate returns is an object of its own, not a
\* member's stored map.
C9_Purity ==
    [][last'.op \in {"add", "radd", "evaluate"}
       => /\ \A c \in CollIds : colls'[c] = colls[c] /\ lists'[colls'[c].list] = Members(c)
          /\ \A l \in ListIds : lists'[l] = lists[l]
          /\ \A p \in ParamIds : params'[p] = params[p]
          /\ \A m \in LeafIds : leaves'[m] = leaves[m]
          /\ last'.ref = 0]_vars

C9_Witness ==
    /\ last.op = "evaluate"
    /\ IsBackgroundModels(last.left)
    /\ Len(last.trace) >= 2
    /\ last.err = "none"
    /\ \E c \in CollIds : c # last.left.id /\ colls[c].list # colls[last.left.id].list

\* C10. Isolation of the in-place extend: c += x keeps c's old member list as a
\* prefix of the new one and changes the member list of no other collection.
C10_IAddIsolation ==
    [][(last'.op = "iadd" /\ last'.err = "none")
       => /\ IsPrefix(Members(last'.left.id), lists'[colls'[last'.left.id].list])
          /\ \A d \in CollIds \ {last'.left.id} :
                lists'[colls'[d].list] = Members(d)]_vars

====
